---------------------------- MODULE Spec2Model ----------------------------
(***************************************************************************)
(* Approximate-LRU cache: the generic engine LRU[K,V] (internal/lru) and   *)
(* the mutex-serialised facade lru.Cache that wraps it.                    *)
(*                                                                         *)
(* Slots are numbered from 0 as in the Go code; the slice c.data is the    *)
(* sequence `data' (slot i is data[i+1]) and the part of its backing array *)
(* that lies between len(c.data) and cap(c.data) is the sequence `spare'.  *)
(***************************************************************************)
EXTENDS Integers, Sequences, FiniteSets, Bags, TLC

\* ------------------------------------------------------------------ bounds
MaxSize == 2
MaxCounter == 4
\* longest array findOldest is run on, and the Adds made to it once full
MaxProbeLen == 9
ProbeAdds == 2

\* the cache is instantiated at a key type K of three values, the zero value
\* among them, and at V = bool
Keys == {0, 1, 2}
Values == BOOLEAN
Sizes == 0..MaxSize

\* ------------------------------------------------------- program constants
randomProbes == 8

\* zero values of K, V and entry[K,V]
ZeroK == 0
ZeroV == FALSE
ZeroEntry == [lastUsed |-> 0, key |-> ZeroK, value |-> ZeroV]

NoPanic == "none"
InvariantBroken == "invariant broken"
IndexOutOfRange == "index out of range"
BadSize == "must provide a positive size"

VARIABLES
    items,      \* c.lru.items   : key -> slot
    data,       \* c.lru.data    : the slice, slots 0..len-1
    spare,      \* backing array of c.lru.data between len and cap
    counter,    \* c.lru.counter
    size,       \* c.lru.size
    onEvict,    \* c.lru.onEvict != nil
    panicked,   \* NoPanic, or the panic that aborted the process
    op,         \* the facade call that just returned, with its results
    evicts,     \* bag of <<key, value>> the callback got during that call
    balance,    \* new-key Adds minus callback invocations so far, as a
                \* caller with a callback counts them
    lock,       \* c.lock: 0 when unlocked, else the goroutine that locked it
    gor,        \* per goroutine: where it is in its facade call
    reenter     \* the registered callback calls a method of the same cache

vars == <<items, data, spare, counter, size, onEvict, panicked, op, evicts,
          balance, lock, gor, reenter>>

\* ----------------------------------------------------------------- helpers
Min(a, b) == IF a < b THEN a ELSE b
Max(a, b) == IF a < b THEN b ELSE a

\* m[k] = v of a Go map
MapSet(m, k, v) == [x \in (DOMAIN m) \cup {k} |-> IF x = k THEN v ELSE m[x]]
\* mutant: the map entry is never deleted
MapDel_keep(m, k) == m

\* delete(m, k)
MapDel(m, k) == [x \in (DOMAIN m) \ {k} |-> m[x]]
EmptyMap == [x \in {} |-> 0]

\* rng.Intn(n): any of 0..n-1
Intn(n) == 0..(n - 1)

Zeros(n) == [i \in 1..n |-> ZeroEntry]

\* the engine as one value
Engine == [items |-> items, data |-> data, spare |-> spare,
           counter |-> counter, size |-> size, onEvict |-> onEvict,
           evicts |-> EmptyBag, seen |-> <<>>, panic |-> NoPanic]

Panic(c, msg) == [c EXCEPT !.panic = msg]

\* the engine as the first callback invocation of a call finds it: c.seen is
\* empty until then
Seen(c) ==
    IF c.seen # <<>> THEN c.seen
    ELSE <<[items |-> c.items, data |-> c.data, spare |-> c.spare,
            counter |-> c.counter, size |-> c.size]>>

\* mutant: the callback is invoked twice
callOnEvict_twice(c, key, value) ==
    IF c.onEvict
    THEN [c EXCEPT !.evicts = @ (+) SetToBag({<<key, value>>})
                                (+) SetToBag({<<key, value>>}),
                   !.seen = Seen(c)]
    ELSE c

\* c.onEvict(key, value), when registered
callOnEvict(c, key, value) ==
    IF c.onEvict
    THEN [c EXCEPT !.evicts = @ (+) SetToBag({<<key, value>>}),
                   !.seen = Seen(c)]
    ELSE c

\* ------------------------------------------------------------------ engine
\* mutant: only a negative size is refused
NewLRU_acceptZero(sz, cb) ==
    IF sz < 0
    THEN [items |-> EmptyMap, data |-> <<>>, spare |-> <<>>, counter |-> 0,
          size |-> 0, onEvict |-> FALSE, evicts |-> EmptyBag,
          seen |-> <<>>, panic |-> BadSize]
    ELSE [items |-> EmptyMap, data |-> <<>>, spare |-> Zeros(sz), counter |-> 1,
          size |-> sz, onEvict |-> cb, evicts |-> EmptyBag,
          seen |-> <<>>, panic |-> NoPanic]

NewLRU(sz, cb) ==
    IF sz <= 0
    THEN [items |-> EmptyMap, data |-> <<>>, spare |-> <<>>, counter |-> 0,
          size |-> 0, onEvict |-> FALSE, evicts |-> EmptyBag,
          seen |-> <<>>, panic |-> BadSize]
    ELSE [items |-> EmptyMap, data |-> <<>>, spare |-> Zeros(sz), counter |-> 1,
          size |-> sz, onEvict |-> cb, evicts |-> EmptyBag,
          seen |-> <<>>, panic |-> NoPanic]

\* mutant: the stamps handed out start at 0
getCounter_fromZero(c) ==
    [c |-> [c EXCEPT !.counter = @ + 1], n |-> c.counter - 1]

\* mutant: the counter is read and not advanced
getCounter_stuck(c) ==
    LET c0 == IF c.counter = 0 THEN [c EXCEPT !.counter = 1] ELSE c
    IN  [c |-> c0, n |-> c0.counter]

getCounter(c) ==
    LET c0 == IF c.counter = 0 THEN [c EXCEPT !.counter = 1] ELSE c
    IN  [c |-> [c0 EXCEPT !.counter = @ + 1], n |-> c0.counter]

\* mutant: the two slots are exchanged but the index map is not updated
swap_stale(c, i, j) ==
    IF i = j THEN c
    ELSE IF i >= Len(c.data) \/ j >= Len(c.data) \/ i < 0 \/ j < 0
    THEN Panic(c, IndexOutOfRange)
    ELSE [c EXCEPT !.data = [@ EXCEPT ![i + 1] = c.data[j + 1],
                                      ![j + 1] = c.data[i + 1]]]

swap(c, i, j) ==
    IF i = j THEN c
    ELSE IF i >= Len(c.data) \/ j >= Len(c.data) \/ i < 0 \/ j < 0
    THEN Panic(c, IndexOutOfRange)
    ELSE LET m1 == MapSet(c.items, c.data[i + 1].key, j)
             m2 == MapSet(m1, c.data[j + 1].key, i)
         IN  [c EXCEPT !.items = m2,
                       !.data = [@ EXCEPT ![i + 1] = c.data[j + 1],
                                          ![j + 1] = c.data[i + 1]]]

\* append(c.data, ent)
appendData(c, ent) ==
    [c EXCEPT !.data = Append(@, ent),
              !.spare = IF @ = <<>> THEN <<>> ELSE Tail(@)]

\* c.data = c.data[:n]
reslice(c, n) ==
    LET full == c.data \o c.spare
    IN  IF n < 0 \/ n > Len(full) THEN Panic(c, IndexOutOfRange)
        ELSE [c EXCEPT !.data = SubSeq(full, 1, n),
                       !.spare = SubSeq(full, n + 1, Len(full))]

\* mutant: the last slot is dropped without first swapping slot i into it
removeElement_noSwap(c, i, ent, doSwap) ==
    IF i >= c.size \/ Len(c.data) = 0 THEN Panic(c, InvariantBroken)
    ELSE LET last == Len(c.data) - 1
             c2 == IF doSwap
                   THEN reslice([c EXCEPT !.data[last + 1] = ZeroEntry], last)
                   ELSE c
         IN  callOnEvict([c2 EXCEPT !.items = MapDel(@, ent.key)],
                         ent.key, ent.value)

removeElement(c, i, ent, doSwap) ==
    IF i >= c.size \/ Len(c.data) = 0 THEN Panic(c, InvariantBroken)
    ELSE LET last == Len(c.data) - 1
             c1 == IF doSwap THEN swap(c, i, last) ELSE c
             c2 == IF doSwap /\ c1.panic = NoPanic
                   THEN reslice([c1 EXCEPT !.data[last + 1] = ZeroEntry], last)
                   ELSE c1
         IN  IF c2.panic # NoPanic THEN c2
             ELSE callOnEvict([c2 EXCEPT !.items = MapDel(@, ent.key)],
                              ent.key, ent.value)

\* mutant: the scan stops at the last slot instead of wrapping to slot 0
probeOff_noWrap(base, j, n) == Min(base + j, n - 1)

\* the slot probed at step j of findOldest
probeOff(base, j, n) ==
    IF base + randomProbes - 1 < n THEN base + j ELSE (base + j) % n

\* mutant: the scan keeps the more recent of two entries
RECURSIVE probe_newest(_, _, _, _, _)
probe_newest(c, base, n, j, oldestOff) ==
    IF j >= randomProbes THEN oldestOff
    ELSE LET off == probeOff(base, j, n)
         IN  IF off >= Len(c.data) THEN -1
             ELSE IF oldestOff >= 0
                     /\ c.data[off + 1].lastUsed > c.data[oldestOff + 1].lastUsed
                  THEN probe_newest(c, base, n, j + 1, off)
                  ELSE probe_newest(c, base, n, j + 1, oldestOff)

RECURSIVE probe(_, _, _, _, _)
probe(c, base, n, j, oldestOff) ==
    IF j >= randomProbes THEN oldestOff
    ELSE LET off == probeOff(base, j, n)
         IN  IF off >= Len(c.data) THEN -1
             ELSE IF oldestOff >= 0
                     /\ c.data[off + 1].lastUsed < c.data[oldestOff + 1].lastUsed
                  THEN probe(c, base, n, j + 1, off)
                  ELSE probe(c, base, n, j + 1, oldestOff)

\* findOldest with the base the generator drew; off = -1 with ok = TRUE
\* stands for a slot access out of range
findOldest(c, base) ==
    LET n == Cardinality(DOMAIN c.items)
    IN  IF n <= 0 THEN [off |-> -1, ok |-> FALSE]
        ELSE IF base >= Len(c.data) THEN [off |-> -1, ok |-> TRUE]
        ELSE [off |-> probe(c, base, n, 1, base), ok |-> TRUE]

\* mutant: the new key is not recorded in the index map before the swap
addShuffled_unmapped(c, ent, j) ==
    IF Len(c.data) = c.size THEN Panic(c, InvariantBroken)
    ELSE swap(appendData(c, ent), Len(c.data), j)

addShuffled(c, ent, j) ==
    IF Len(c.data) = c.size THEN Panic(c, InvariantBroken)
    ELSE LET i == Len(c.data)
             c1 == appendData(c, ent)
         IN  swap([c1 EXCEPT !.items = MapSet(@, ent.key, i)], i, j)

\* mutant: the victim is overwritten but never removed from the index map
addEvict_keepVictim(c, ent, base) ==
    LET f == findOldest(c, base)
    IN  IF ~f.ok THEN Panic(c, InvariantBroken)
        ELSE IF f.off < 0 THEN Panic(c, IndexOutOfRange)
        ELSE [c EXCEPT !.data[f.off + 1] = ent,
                       !.items = MapSet(@, ent.key, f.off)]

\* the eviction branch of Add, for the base the generator drew
addEvict(c, ent, base) ==
    LET f == findOldest(c, base)
    IN  IF ~f.ok THEN Panic(c, InvariantBroken)
        ELSE IF f.off < 0 THEN Panic(c, IndexOutOfRange)
        ELSE LET c1 == removeElement(c, f.off, c.data[f.off + 1], FALSE)
             IN  IF c1.panic # NoPanic THEN c1
                 ELSE [c1 EXCEPT !.data[f.off + 1] = ent,
                                 !.items = MapSet(@, ent.key, f.off)]

\* LRU.Add: the set of outcomes over the generator's draws
lruAdd(c, key, value) ==
    LET g == getCounter(c)
        now == g.n
        c1 == g.c
        ent == [lastUsed |-> now, key |-> key, value |-> value]
    IN  IF key \in DOMAIN c1.items
        THEN LET i == c1.items[key]
             IN  IF i >= Len(c1.data)
                 THEN {[c |-> Panic(c1, IndexOutOfRange), evicted |-> FALSE]}
                 ELSE {[c |-> [c1 EXCEPT !.data[i + 1].lastUsed = now,
                                         !.data[i + 1].value = value],
                        evicted |-> FALSE]}
        ELSE IF c1.size = 0 THEN {[c |-> c1, evicted |-> FALSE]}
        ELSE IF Len(c1.data) = c1.size
        THEN IF Cardinality(DOMAIN c1.items) <= 0
             THEN {[c |-> Panic(c1, InvariantBroken), evicted |-> TRUE]}
             ELSE {[c |-> addEvict(c1, ent, base), evicted |-> TRUE] :
                      base \in Intn(Cardinality(DOMAIN c1.items))}
        ELSE {[c |-> addShuffled(c1, ent, j), evicted |-> FALSE] :
                 j \in Intn(Len(c1.data) + 1)}

lruGet(c, key) ==
    IF key \in DOMAIN c.items
    THEN LET i == c.items[key]
         IN  IF i >= Len(c.data)
             THEN [c |-> Panic(c, IndexOutOfRange), value |-> ZeroV, ok |-> FALSE]
             ELSE IF c.data[i + 1].key # key
             THEN [c |-> c, value |-> ZeroV, ok |-> FALSE]
             ELSE LET g == getCounter(c)
                  IN  [c |-> [g.c EXCEPT !.data[i + 1].lastUsed = g.n],
                       value |-> c.data[i + 1].value, ok |-> TRUE]
    ELSE [c |-> c, value |-> ZeroV, ok |-> FALSE]

lruContains(c, key) == key \in DOMAIN c.items

\* mutant: Peek refreshes the entry as Get does
lruPeek_touch(c, key) == lruGet(c, key)

lruPeek(c, key) ==
    IF key \in DOMAIN c.items
    THEN LET i == c.items[key]
         IN  IF i >= Len(c.data)
             THEN [c |-> Panic(c, IndexOutOfRange), value |-> ZeroV, ok |-> FALSE]
             ELSE [c |-> c, value |-> c.data[i + 1].value, ok |-> TRUE]
    ELSE [c |-> c, value |-> ZeroV, ok |-> FALSE]

lruRemove(c, key) ==
    IF key \in DOMAIN c.items
    THEN LET i == c.items[key]
         IN  IF i >= Len(c.data)
             THEN [c |-> Panic(c, IndexOutOfRange), present |-> FALSE]
             ELSE [c |-> removeElement(c, i, c.data[i + 1], TRUE),
                   present |-> TRUE]
    ELSE [c |-> c, present |-> FALSE]

lruLen(c) == Cardinality(DOMAIN c.items)

\* mutant: the slice is emptied but the index map is kept
lruPurge_keepItems(c) ==
    LET hit == {k \in DOMAIN c.items : c.data[c.items[k] + 1].lastUsed > 0}
        c1 == IF ~c.onEvict THEN c
              ELSE [c EXCEPT !.evicts = @ (+)
                      SetToBag({<<k, c.data[c.items[k] + 1].value>> : k \in hit}),
                             !.seen = IF hit = {} THEN @ ELSE Seen(c)]
    IN  reslice(c1, 0)

lruPurge(c) ==
    LET live == {k \in DOMAIN c.items : c.items[k] < Len(c.data)}
        hit == {k \in live : c.data[c.items[k] + 1].lastUsed > 0}
        c1 == IF ~c.onEvict THEN c
              ELSE IF live # DOMAIN c.items THEN Panic(c, IndexOutOfRange)
              ELSE [c EXCEPT !.evicts = @ (+)
                      SetToBag({<<k, c.data[c.items[k] + 1].value>> : k \in hit}),
                             !.seen = IF hit = {} THEN @ ELSE Seen(c)]
    IN  IF c1.panic # NoPanic THEN c1
        ELSE [reslice(c1, 0) EXCEPT !.items = EmptyMap]


\* the outputs slices.SortFunc may leave for "a.lastUsed > b.lastUsed": the
\* orders of the slots idx of s in which no entry precedes a more recent one
RECURSIVE sortedOrders(_, _)
sortedOrders(s, idx) ==
    IF idx = {} THEN {<<>>}
    ELSE UNION {{<<s[i]>> \o t : t \in sortedOrders(s, idx \ {i})} :
                   i \in {a \in idx : \A b \in idx : s[a].lastUsed >= s[b].lastUsed}}

\* mutant: the sort is skipped, the array is left in the order it was in
sortByLastUsed_unsorted(s) == {s}

sortByLastUsed(s) == sortedOrders(s, 1..Len(s))

\* for i, entry := range c.data { if entry.lastUsed != 0 { c.items[entry.key] = i } }
RECURSIVE reindex(_, _, _)
reindex(m, d, i) ==
    IF i >= Len(d) THEN m
    ELSE IF d[i + 1].lastUsed = 0 THEN reindex(m, d, i + 1)
    ELSE reindex(MapSet(m, d[i + 1].key, i), d, i + 1)

\* for i := 0; i < diff; i++ { j := oldSize-1-i; c.removeElement(j, c.data[j], true) }
RECURSIVE dropOldest(_, _, _, _)
dropOldest(c, oldSize, diff, i) ==
    IF i >= diff \/ c.panic # NoPanic THEN c
    ELSE LET j == oldSize - 1 - i
         IN  IF j < 0 \/ j >= Len(c.data) THEN Panic(c, IndexOutOfRange)
             ELSE dropOldest(removeElement(c, j, c.data[j + 1], TRUE),
                             oldSize, diff, i + 1)

\* mutant: the new size is stored before the oldest entries are removed
resizeSorted_sizeFirst(c, sz, diff) ==
    LET c1 == [c EXCEPT !.items = reindex(@, c.data, 0), !.size = sz]
        oldSize == Len(c1.data)
        c2 == dropOldest(c1, oldSize, diff, 0)
    IN  IF c2.panic # NoPanic THEN c2
        ELSE IF sz < oldSize THEN reslice(c2, sz)
        ELSE [c2 EXCEPT
                !.data = [i \in 1..oldSize |->
                             IF i <= Len(c2.data) THEN c2.data[i] ELSE ZeroEntry],
                !.spare = Zeros(sz - oldSize)]

\* the tail of Resize, once the array is sorted
resizeSorted(c, sz, diff) ==
    LET c1 == [c EXCEPT !.items = reindex(@, c.data, 0)]
        oldSize == Len(c1.data)
        c2 == dropOldest(c1, oldSize, diff, 0)
        c3 == [c2 EXCEPT !.size = sz]
    IN  IF c2.panic # NoPanic THEN c2
        ELSE IF sz < oldSize THEN reslice(c3, sz)
        ELSE [c3 EXCEPT
                !.data = [i \in 1..oldSize |->
                             IF i <= Len(c2.data) THEN c2.data[i] ELSE ZeroEntry],
                !.spare = Zeros(sz - oldSize)]

\* LRU.Resize: the set of outcomes over the orders the sort may produce
lruResize(c, sz) ==
    LET diff == Max(0, lruLen(c) - sz)
    IN  {[c |-> resizeSorted([c EXCEPT !.data = t], sz, diff), evicted |-> diff] :
            t \in sortByLastUsed(c.data)}

\* ------------------------------------------------------------------ facade
\* what a facade call leaves behind: the engine it ran on and its results
Return(c, o) ==
    /\ items' = c.items
    /\ data' = c.data
    /\ spare' = c.spare
    /\ counter' = c.counter
    /\ size' = c.size
    /\ onEvict' = c.onEvict
    /\ panicked' = c.panic
    /\ evicts' = c.evicts
    /\ op' = o
    /\ UNCHANGED <<lock, gor, reenter>>

NoOp == [name |-> "New", key |-> ZeroK, value |-> ZeroV, n |-> 0,
         ok |-> FALSE, evicted |-> FALSE, val |-> ZeroV, cnt |-> 0]

\* an Add that goes through to the engine, from whichever facade call
\* the callers' bookkeeping: a call that put in `added' new keys and whose
\* callback invocations are in c.evicts
Tally(c, added) ==
    balance' = IF c.onEvict THEN balance + added - BagCardinality(c.evicts)
               ELSE balance

\* 1 when the Add of key to the engine c left a new key in c1
Fresh(c, c1, key) ==
    IF c1.panic = NoPanic /\ key \notin DOMAIN c.items /\ key \in DOMAIN c1.items
    THEN 1 ELSE 0

Running == panicked = NoPanic

\* the goroutines that share the cache
Goroutines == {1, 2, 3}

\* a facade call and its results, as a goroutine holds them
NoCall == [name |-> "none", key |-> ZeroK, value |-> ZeroV, n |-> 0]
NoRes == [ok |-> FALSE, evicted |-> FALSE, val |-> ZeroV, cnt |-> 0]

\* a goroutine outside every facade call
Idle == [pc |-> "idle", call |-> NoCall, res |-> NoRes, snap |-> <<>>,
         inner |-> FALSE]

\* the cache NewWithEvict(sz, cb) returns, or its panic
Construct(sz, cb) ==
    LET c == NewLRU(sz, cb)
    IN  /\ items = c.items
        /\ data = c.data
        /\ spare = c.spare
        /\ counter = c.counter
        /\ size = c.size
        /\ onEvict = c.onEvict
        /\ panicked = c.panic
        /\ evicts = EmptyBag
        /\ balance = 0
        /\ op = [NoOp EXCEPT !.n = sz]
        /\ lock = 0
        /\ gor = [g \in Goroutines |-> Idle]

Init ==
    \E sz \in (-1)..MaxSize, cb \in BOOLEAN :
        /\ Construct(sz, cb)
        /\ reenter = FALSE

Add(key, value) ==
    /\ Running
    /\ counter < MaxCounter
    /\ \E r \in lruAdd(Engine, key, value) :
          /\ Return(r.c, [NoOp EXCEPT !.name = "Add", !.key = key,
                                      !.value = value, !.evicted = r.evicted])
          /\ Tally(r.c, Fresh(Engine, r.c, key))

Get(key) ==
    /\ Running
    /\ lruContains(Engine, key) => counter < MaxCounter
    /\ LET r == lruGet(Engine, key)
       IN  /\ Return(r.c, [NoOp EXCEPT !.name = "Get", !.key = key,
                                       !.val = r.value, !.ok = r.ok])
           /\ Tally(r.c, 0)

Contains(key) ==
    /\ Running
    /\ Return(Engine, [NoOp EXCEPT !.name = "Contains", !.key = key,
                                   !.ok = lruContains(Engine, key)])
    /\ Tally(Engine, 0)

Peek(key) ==
    /\ Running
    /\ LET r == lruPeek(Engine, key)
       IN  /\ Return(r.c, [NoOp EXCEPT !.name = "Peek", !.key = key,
                                       !.val = r.value, !.ok = r.ok])
           /\ Tally(r.c, 0)

\* mutant: the Add is made whether or not the key is present
ContainsOrAdd_always(key, value) ==
    /\ Running
    /\ counter < MaxCounter
    /\ \E r \in lruAdd(Engine, key, value) :
          /\ Return(r.c, [NoOp EXCEPT !.name = "ContainsOrAdd", !.key = key,
                                      !.value = value,
                                      !.ok = lruContains(Engine, key),
                                      !.evicted = r.evicted])
          /\ Tally(r.c, Fresh(Engine, r.c, key))

ContainsOrAdd(key, value) ==
    /\ Running
    /\ ~lruContains(Engine, key) => counter < MaxCounter
    /\ LET o == [NoOp EXCEPT !.name = "ContainsOrAdd", !.key = key,
                             !.value = value]
       IN  IF lruContains(Engine, key)
           THEN /\ Return(Engine, [o EXCEPT !.ok = TRUE, !.evicted = FALSE])
                /\ Tally(Engine, 0)
           ELSE \E r \in lruAdd(Engine, key, value) :
                   /\ Return(r.c, [o EXCEPT !.ok = FALSE, !.evicted = r.evicted])
                   /\ Tally(r.c, Fresh(Engine, r.c, key))

\* mutant: the look-up is made with Get, which refreshes the entry
PeekOrAdd_touch(key, value) ==
    /\ Running
    /\ counter < MaxCounter
    /\ LET o == [NoOp EXCEPT !.name = "PeekOrAdd", !.key = key, !.value = value]
           p == lruGet(Engine, key)
       IN  IF p.c.panic # NoPanic \/ p.ok
           THEN /\ Return(p.c, [o EXCEPT !.val = p.value, !.ok = p.ok,
                                         !.evicted = FALSE])
                /\ Tally(p.c, 0)
           ELSE \E r \in lruAdd(p.c, key, value) :
                   /\ Return(r.c, [o EXCEPT !.val = p.value, !.ok = FALSE,
                                            !.evicted = r.evicted])
                   /\ Tally(r.c, Fresh(Engine, r.c, key))

PeekOrAdd(key, value) ==
    /\ Running
    /\ ~lruContains(Engine, key) => counter < MaxCounter
    /\ LET o == [NoOp EXCEPT !.name = "PeekOrAdd", !.key = key, !.value = value]
           p == lruPeek(Engine, key)
       IN  IF p.c.panic # NoPanic \/ p.ok
           THEN /\ Return(p.c, [o EXCEPT !.val = p.value, !.ok = p.ok,
                                         !.evicted = FALSE])
                /\ Tally(p.c, 0)
           ELSE \E r \in lruAdd(p.c, key, value) :
                   /\ Return(r.c, [o EXCEPT !.val = p.value, !.ok = FALSE,
                                            !.evicted = r.evicted])
                   /\ Tally(r.c, Fresh(Engine, r.c, key))

Remove(key) ==
    /\ Running
    /\ LET r == lruRemove(Engine, key)
       IN  /\ Return(r.c, [NoOp EXCEPT !.name = "Remove", !.key = key,
                                       !.ok = r.present])
           /\ Tally(r.c, 0)

Resize(sz) ==
    /\ Running
    /\ \E r \in lruResize(Engine, sz) :
          /\ Return(r.c, [NoOp EXCEPT !.name = "Resize", !.n = sz,
                                      !.cnt = r.evicted])
          /\ Tally(r.c, 0)

Len_ ==
    /\ Running
    /\ Return(Engine, [NoOp EXCEPT !.name = "Len", !.cnt = lruLen(Engine)])
    /\ Tally(Engine, 0)

Purge ==
    /\ Running
    /\ LET c == lruPurge(Engine)
       IN  Return(c, [NoOp EXCEPT !.name = "Purge"]) /\ Tally(c, 0)

Next ==
    \/ \E k \in Keys, v \in Values : Add(k, v)
    \/ \E k \in Keys : Get(k)
    \/ \E k \in Keys : Contains(k)
    \/ \E k \in Keys : Peek(k)
    \/ \E k \in Keys, v \in Values : ContainsOrAdd(k, v)
    \/ \E k \in Keys, v \in Values : PeekOrAdd(k, v)
    \/ \E k \in Keys : Remove(k)
    \/ \E n \in Sizes : Resize(n)
    \/ Len_
    \/ Purge

Spec == Init /\ [][Next]_vars

\* ------------------------------------------------- the facade, goroutine by
\* goroutine.  A facade method is c.lock.Lock(); defer c.lock.Unlock(); the
\* delegation to c.lru; the return, which runs the deferred Unlock.  A
\* goroutine is at "lock" from its entry into the method until Lock returns,
\* then at "body".  The method's arguments play no part before the body uses
\* them and are drawn there.

\* the keys the goroutines contend for
HotKeys == {0, 1}

\* the calls a goroutine may make
Calls ==
    {[NoCall EXCEPT !.name = nm, !.key = k, !.value = v] :
        nm \in {"Add", "ContainsOrAdd", "PeekOrAdd"}, k \in HotKeys, v \in Values}
    \cup {[NoCall EXCEPT !.name = nm, !.key = k] :
        nm \in {"Get", "Contains", "Peek", "Remove"}, k \in HotKeys}
    \cup {[NoCall EXCEPT !.name = "Resize", !.n = n] : n \in Sizes}
    \cup {[NoCall EXCEPT !.name = nm] : nm \in {"Len", "Purge"}}

Composite == {"ContainsOrAdd", "PeekOrAdd"}

\* the call takes a value of the counter of engine c
Stamps(c, call) ==
    \/ call.name = "Add"
    \/ call.name = "Get" /\ lruContains(c, call.key)
    \/ call.name \in Composite /\ ~lruContains(c, call.key)

\* the engine method a facade method of one statement delegates to: the
\* outcomes, each the engine it leaves and the results the facade returns
lruCall(c, call) ==
    CASE call.name = "Add" ->
            {[c |-> r.c, res |-> [NoRes EXCEPT !.evicted = r.evicted]] :
                r \in lruAdd(c, call.key, call.value)}
      [] call.name = "Get" ->
            LET r == lruGet(c, call.key)
            IN  {[c |-> r.c, res |-> [NoRes EXCEPT !.val = r.value, !.ok = r.ok]]}
      [] call.name = "Contains" ->
            {[c |-> c, res |-> [NoRes EXCEPT !.ok = lruContains(c, call.key)]]}
      [] call.name = "Peek" ->
            LET r == lruPeek(c, call.key)
            IN  {[c |-> r.c, res |-> [NoRes EXCEPT !.val = r.value, !.ok = r.ok]]}
      [] call.name = "Remove" ->
            LET r == lruRemove(c, call.key)
            IN  {[c |-> r.c, res |-> [NoRes EXCEPT !.ok = r.present]]}
      [] call.name = "Resize" ->
            {[c |-> r.c, res |-> [NoRes EXCEPT !.cnt = r.evicted]] :
                r \in lruResize(c, call.n)}
      [] call.name = "Len" ->
            {[c |-> c, res |-> [NoRes EXCEPT !.cnt = lruLen(c)]]}
      [] call.name = "Purge" ->
            {[c |-> lruPurge(c), res |-> NoRes]}

\* the look-up a composite method starts with
lruCheck(c, call) ==
    IF call.name = "ContainsOrAdd"
    THEN [c |-> c, res |-> [NoRes EXCEPT !.ok = lruContains(c, call.key)]]
    ELSE LET p == lruPeek(c, call.key)
         IN  [c |-> p.c, res |-> [NoRes EXCEPT !.val = p.value, !.ok = p.ok]]

\* the facade method run alone on the single-threaded engine c
Serial(c, call) ==
    IF call.name \in Composite
    THEN LET p == lruCheck(c, call)
         IN  IF p.c.panic # NoPanic \/ p.res.ok THEN {p}
             ELSE {[c |-> r.c, res |-> [p.res EXCEPT !.evicted = r.evicted]] :
                      r \in lruAdd(p.c, call.key, call.value)}
    ELSE lruCall(c, call)

\* mutant: Lock returns whether or not another goroutine holds the mutex
CanLock_racy(g) == TRUE

\* mutant: Lock returns at once for the goroutine that holds the mutex
CanLock_reentrant(g) == lock \in {0, g}

\* sync.Mutex.Lock returns for g only when the mutex is unlocked
CanLock(g) == lock = 0

\* mutant: the early return of a composite method leaves the mutex locked
Unlocked_exceptEarly(g) ==
    IF gor[g].call.name \in Composite /\ gor[g].res.ok THEN lock ELSE 0

\* the deferred c.lock.Unlock()
Unlocked(g) == 0

\* the engine fields take the values of record e
Store(e) ==
    /\ items' = e.items
    /\ data' = e.data
    /\ spare' = e.spare
    /\ counter' = e.counter
    /\ size' = e.size

\* g enters a facade method and reaches c.lock.Lock()
Call(g) ==
    /\ Running
    /\ gor[g].pc = "idle"
    /\ gor' = [gor EXCEPT ![g].pc = "lock"]
    /\ UNCHANGED <<items, data, spare, counter, size, onEvict, panicked, op,
                   evicts, balance, lock, reenter>>

\* c.lock.Lock() returns in g; snap is the engine as g finds it.  A callback
\* that re-enters the cache waits at the same Lock.
Acquire(g) ==
    /\ Running
    /\ gor[g].pc \in {"lock", "callback"}
    /\ CanLock(g)
    /\ lock' = g
    /\ gor' = [gor EXCEPT ![g] = [pc |-> "body", call |-> NoCall, res |-> NoRes,
                                  snap |-> <<Engine>>,
                                  inner |-> (gor[g].pc = "callback")]]
    /\ UNCHANGED <<items, data, spare, counter, size, onEvict, panicked, op,
                   evicts, balance, reenter>>

\* the engine call of g in method call ends with outcome r, unless the
\* callback re-enters the cache: then g is inside the first callback
\* invocation, at the Lock of the method the callback calls, and the engine is
\* as that invocation found it
Finish(g, call, r) ==
    IF reenter /\ r.c.seen # <<>>
    THEN /\ Store(r.c.seen[1])
         /\ evicts' = EmptyBag
         /\ gor' = [gor EXCEPT ![g].pc = "callback", ![g].call = call]
         /\ UNCHANGED <<onEvict, panicked, op, balance, lock, reenter>>
    ELSE /\ Store(r.c)
         /\ panicked' = r.c.panic
         /\ evicts' = r.c.evicts
         /\ gor' = [gor EXCEPT ![g].pc = "unlock", ![g].call = call,
                               ![g].res = r.res, ![g].snap = <<>>]
         /\ UNCHANGED <<onEvict, op, balance, lock, reenter>>

\* mutant: the composite method unlocks after its look-up and adds unlocked
AfterCheck_unlocked(g, call, p) ==
    /\ gor' = [gor EXCEPT ![g].pc = IF p.res.ok THEN "unlock" ELSE "add",
                          ![g].call = call, ![g].res = p.res,
                          ![g].snap = IF p.res.ok THEN <<>> ELSE @]
    /\ lock' = 0
    /\ evicts' = EmptyBag
    /\ UNCHANGED <<items, data, spare, counter, size, onEvict, panicked, op,
                   balance, reenter>>

\* after the look-up p of composite method call, g returns early or goes on
\* to the Add, the mutex still locked
AfterCheck(g, call, p) ==
    /\ gor' = [gor EXCEPT ![g].pc = IF p.res.ok THEN "unlock" ELSE "add",
                          ![g].call = call, ![g].res = p.res,
                          ![g].snap = IF p.res.ok THEN <<>> ELSE @]
    /\ evicts' = EmptyBag
    /\ UNCHANGED <<items, data, spare, counter, size, onEvict, panicked, op,
                   balance, lock, reenter>>

\* the next statement of the method body in g, for a method among calls: the
\* delegation to the engine; in a composite method the look-up, then the Add
Body(g, calls) ==
    /\ Running
    /\ \/ /\ gor[g].pc = "body"
          /\ \E call \in calls :
                /\ Stamps(Engine, call) => counter < MaxCounter
                /\ IF call.name \in Composite
                   THEN LET p == lruCheck(Engine, call)
                        IN  IF p.c.panic # NoPanic THEN Finish(g, call, p)
                            ELSE AfterCheck(g, call, p)
                   ELSE \E r \in lruCall(Engine, call) : Finish(g, call, r)
       \/ /\ gor[g].pc = "add"
          /\ \E r \in lruAdd(Engine, gor[g].call.key, gor[g].call.value) :
                Finish(g, gor[g].call,
                       [c |-> r.c,
                        res |-> [gor[g].res EXCEPT !.evicted = r.evicted]])

\* the method returns in g: the deferred Unlock runs, and g is left at
\* `after' with its results ("idle" forgets them).  An inner call, made by a
\* callback, would return into the callback.
Release(g, after) ==
    /\ Running
    /\ gor[g].pc = "unlock"
    /\ lock' = Unlocked(g)
    /\ gor' = [gor EXCEPT ![g] =
                 IF gor[g].inner THEN [gor[g] EXCEPT !.pc = "resumed"]
                 ELSE IF after = "idle" THEN Idle
                 ELSE [gor[g] EXCEPT !.pc = after]]
    /\ evicts' = EmptyBag
    /\ UNCHANGED <<items, data, spare, counter, size, onEvict, panicked, op,
                   balance, reenter>>

\* goroutines calling any methods of one cache whose callback, if any, stays
\* out of the cache
InitConc ==
    \E sz \in 1..MaxSize, cb \in BOOLEAN :
        /\ Construct(sz, cb)
        /\ reenter = FALSE

NextConc ==
    \E g \in Goroutines :
        \/ Call(g)
        \/ Acquire(g)
        \/ Body(g, Calls)
        \/ Release(g, "idle")

SpecConc == InitConc /\ [][NextConc]_vars

\* the key the composite calls race for, absent from the new cache
RaceKey == 0

RaceCalls ==
    {[NoCall EXCEPT !.name = nm, !.key = RaceKey, !.value = v] :
        nm \in Composite, v \in Values}

\* every goroutine makes one ContainsOrAdd or PeekOrAdd call for RaceKey on a
\* new cache of capacity >= 1, and nothing else touches the cache
NextRace ==
    \E g \in Goroutines :
        \/ Call(g)
        \/ Acquire(g)
        \/ Body(g, RaceCalls)
        \/ Release(g, "done")

SpecRace == InitConc /\ [][NextRace]_vars

\* every facade method, on one key
OneKeyCalls == {call \in Calls : call.key = RaceKey /\ call.value = ZeroV}

NextOneKey ==
    \E g \in Goroutines :
        \/ Call(g)
        \/ Acquire(g)
        \/ Body(g, OneKeyCalls)
        \/ Release(g, "idle")

\* the scheduler runs every goroutine that can take a step, and sync.Mutex
\* hands the mutex to a goroutine that keeps waiting for it (its starvation
\* mode): a waiter is not overtaken for ever
Fairness ==
    \A g \in Goroutines :
        /\ SF_vars(Acquire(g))
        /\ WF_vars(Body(g, OneKeyCalls))
        /\ WF_vars(Release(g, "idle"))

SpecProgress == InitConc /\ [][NextOneKey]_vars /\ Fairness

\* goroutines calling any methods of one cache whose callback calls a method
\* of that cache
InitReenter ==
    \E sz \in 1..MaxSize :
        /\ Construct(sz, TRUE)
        /\ reenter = TRUE

SpecReenter == InitReenter /\ [][NextConc]_vars

\* ------------------------------------------------ findOldest on long arrays
\* A cache of capacity n, n up to MaxProbeLen, right after Add(1), ..., Add(n):
\* key i carries stamp i and the counter is n + 1.  The placement swaps of
\* addShuffled leave the keys in any order; the orders taken here are the
\* rotations of the ascending and of the descending order, with any two slots
\* exchanged.
Arrangement(n, r, up, i, j) ==
    [x \in 1..n |->
        LET y == IF x = i THEN j ELSE IF x = j THEN i ELSE x
            z == IF up THEN y ELSE n + 1 - y
        IN  ((z - 1 + r) % n) + 1]

InitProbe ==
    \E n \in 1..MaxProbeLen, r \in 0..(MaxProbeLen - 1), up \in BOOLEAN,
       i \in 1..MaxProbeLen, j \in 1..MaxProbeLen, cb \in BOOLEAN :
        /\ r < n /\ i <= j /\ j <= n
        /\ LET p == Arrangement(n, r, up, i, j)
           IN  /\ data = [x \in 1..n |->
                            [lastUsed |-> p[x], key |-> p[x], value |-> ZeroV]]
               /\ items = [k \in 1..n |-> (CHOOSE x \in 1..n : p[x] = k) - 1]
        /\ spare = <<>>
        /\ counter = n + 1
        /\ size = n
        /\ onEvict = cb
        /\ panicked = NoPanic
        /\ evicts = EmptyBag
        /\ balance = 0
        /\ op = [NoOp EXCEPT !.name = "Add", !.key = n, !.value = ZeroV]
        /\ lock = 0
        /\ gor = [g \in Goroutines |-> Idle]
        /\ reenter = FALSE

\* Add of the next new key, the one named like its stamp, to the full cache
AddNext ==
    /\ Running
    /\ counter <= size + ProbeAdds
    /\ \E r \in lruAdd(Engine, counter, ZeroV) :
          /\ Return(r.c, [NoOp EXCEPT !.name = "Add", !.key = counter,
                                      !.value = ZeroV, !.evicted = r.evicted])
          /\ Tally(r.c, Fresh(Engine, r.c, counter))

NextProbe == AddNext

SpecProbe == InitProbe /\ [][NextProbe]_vars

\* ----------------------------------------------- the engine of package approxlru
\* approxlru.NewLRU(sz, cb)
approxlruNewLRU(sz, cb) ==
    IF sz <= 0
    THEN [items |-> EmptyMap, data |-> <<>>, spare |-> <<>>, counter |-> 0,
          size |-> 0, onEvict |-> FALSE, evicts |-> EmptyBag,
          seen |-> <<>>, panic |-> BadSize]
    ELSE [items |-> EmptyMap, data |-> <<>>, spare |-> Zeros(sz), counter |-> 1,
          size |-> sz, onEvict |-> cb, evicts |-> EmptyBag,
          seen |-> <<>>, panic |-> NoPanic]

\* approxlru's getCounter; the overflow it panics on lies beyond MaxCounter
approxlruGetCounter(c) ==
    LET c0 == IF c.counter = 0 THEN [c EXCEPT !.counter = 1] ELSE c
    IN  [c |-> [c0 EXCEPT !.counter = @ + 1], n |-> c0.counter]

\* the function shuffle hands to rng.Shuffle: both keys are written to the
\* index map, the key of an empty slot and the case i = j included
approxlruSwap(c, i, j) ==
    LET m1 == MapSet(c.items, c.data[i + 1].key, j)
        m2 == MapSet(m1, c.data[j + 1].key, i)
    IN  [c EXCEPT !.items = m2,
                  !.data = [@ EXCEPT ![i + 1] = c.data[j + 1],
                                     ![j + 1] = c.data[i + 1]]]

\* rng.Shuffle from slot i down to slot 1: the set of outcomes over the draws
RECURSIVE approxlruShuffleFrom(_, _)
approxlruShuffleFrom(c, i) ==
    IF i <= 0 THEN {c}
    ELSE UNION {approxlruShuffleFrom(approxlruSwap(c, i, j), i - 1) :
                   j \in Intn(i + 1)}

\* approxlru's shuffle
approxlruShuffle(c) == approxlruShuffleFrom(c, Len(c.data) - 1)

\* approxlru's removeElement: the slot is emptied in place
approxlruRemoveElement(c, i, ent) ==
    IF ent.lastUsed = 0 THEN c
    ELSE callOnEvict([c EXCEPT !.data[i + 1] = ZeroEntry,
                               !.items = MapDel(@, ent.key)],
                     ent.key, ent.value)

\* the slot probed at step j of removeOldest
approxlruProbeOff(base, j, n) ==
    IF base + randomProbes - 1 < n THEN base + j ELSE (base + j) % n

\* the probe loops of removeOldest; -2 stands for a slot access out of range
RECURSIVE approxlruProbe(_, _, _, _, _)
approxlruProbe(c, base, n, j, oldestOff) ==
    IF j >= randomProbes THEN oldestOff
    ELSE LET off == approxlruProbeOff(base, j, n)
         IN  IF off >= Len(c.data) THEN -2
             ELSE IF oldestOff >= 0
                     /\ c.data[off + 1].lastUsed < c.data[oldestOff + 1].lastUsed
                  THEN approxlruProbe(c, base, n, j + 1, off)
                  ELSE approxlruProbe(c, base, n, j + 1, oldestOff)

\* approxlru's removeOldest: the set of outcomes over the generator's draws,
\* each the engine and the offset returned
approxlruRemoveOldest(c) ==
    LET n == Cardinality(DOMAIN c.items)
    IN  IF n <= 0 THEN {[c |-> c, off |-> -1]}
        ELSE {IF base >= Len(c.data)
              THEN [c |-> Panic(c, IndexOutOfRange), off |-> -1]
              ELSE LET off == approxlruProbe(c, base, n, 1, base)
                   IN  IF off < 0
                       THEN [c |-> Panic(c, IndexOutOfRange), off |-> -1]
                       ELSE [c |-> approxlruRemoveElement(c, off,
                                                          c.data[off + 1]),
                             off |-> off]
              : base \in Intn(n)}

\* approxlru's Add: the set of outcomes over the generator's draws
approxlruAdd(c, key, value) ==
    LET g == approxlruGetCounter(c)
        now == g.n
        c1 == g.c
        ent == [lastUsed |-> now, key |-> key, value |-> value]
    IN  IF key \in DOMAIN c1.items
        THEN LET i == c1.items[key]
             IN  IF i >= Len(c1.data)
                 THEN {[c |-> Panic(c1, IndexOutOfRange), evicted |-> FALSE]}
                 ELSE {[c |-> [c1 EXCEPT !.data[i + 1].lastUsed = now,
                                         !.data[i + 1].value = value],
                        evicted |-> FALSE]}
        ELSE IF c1.size = 0 THEN {[c |-> c1, evicted |-> FALSE]}
        ELSE IF Len(c1.data) < c1.size
        THEN LET i == Len(c1.data)
                 c2 == [appendData(c1, ent) EXCEPT !.items = MapSet(@, key, i)]
             IN  IF Len(c2.data) = c2.size
                 THEN {[c |-> s, evicted |-> FALSE] : s \in approxlruShuffle(c2)}
                 ELSE {[c |-> c2, evicted |-> FALSE]}
        ELSE {IF r.c.panic # NoPanic THEN [c |-> r.c, evicted |-> TRUE]
              ELSE IF r.off < 0 \/ r.off >= Len(r.c.data)
              THEN [c |-> Panic(r.c, IndexOutOfRange), evicted |-> TRUE]
              ELSE [c |-> [r.c EXCEPT !.data[r.off + 1] = ent,
                                      !.items = MapSet(@, key, r.off)],
                    evicted |-> TRUE]
              : r \in approxlruRemoveOldest(c1)}

\* approxlru's Remove
approxlruRemove(c, key) ==
    IF key \in DOMAIN c.items
    THEN LET i == c.items[key]
         IN  IF i >= Len(c.data)
             THEN [c |-> Panic(c, IndexOutOfRange), present |-> FALSE]
             ELSE [c |-> approxlruRemoveElement(c, i, c.data[i + 1]),
                   present |-> TRUE]
    ELSE [c |-> c, present |-> FALSE]

\* the engine approxlru.NewLRU(sz, cb) returns, or its error
InitLegacy ==
    \E sz \in (-1)..MaxSize, cb \in BOOLEAN :
        LET c == approxlruNewLRU(sz, cb)
        IN  /\ items = c.items
            /\ data = c.data
            /\ spare = c.spare
            /\ counter = c.counter
            /\ size = c.size
            /\ onEvict = c.onEvict
            /\ panicked = c.panic
            /\ evicts = EmptyBag
            /\ balance = 0
            /\ op = [NoOp EXCEPT !.n = sz]
            /\ lock = 0
            /\ gor = [g \in Goroutines |-> Idle]
            /\ reenter = FALSE

AddLegacy(key, value) ==
    /\ Running
    /\ counter < MaxCounter
    /\ \E r \in approxlruAdd(Engine, key, value) :
          /\ Return(r.c, [NoOp EXCEPT !.name = "Add", !.key = key,
                                      !.value = value, !.evicted = r.evicted])
          /\ Tally(r.c, Fresh(Engine, r.c, key))

RemoveLegacy(key) ==
    /\ Running
    /\ LET r == approxlruRemove(Engine, key)
       IN  /\ Return(r.c, [NoOp EXCEPT !.name = "Remove", !.key = key,
                                       !.ok = r.present])
           /\ Tally(r.c, 0)

NextLegacy ==
    \/ \E key \in Keys, value \in Values : AddLegacy(key, value)
    \/ \E key \in Keys : RemoveLegacy(key)

SpecLegacy == InitLegacy /\ [][NextLegacy]_vars

\* ------------------------------------------------------------------ claims
\* the entry the index map leads to for key k, the empty entry if none
entryOf(c, k) ==
    IF k \in DOMAIN c.items /\ c.items[k] \in 0..(Len(c.data) - 1)
    THEN c.data[c.items[k] + 1] ELSE ZeroEntry

\* the fields of the engine
engineVars == <<items, data, spare, counter, size, onEvict>>

\* k is the least recently used of the present keys
Oldest(k) ==
    /\ k \in DOMAIN items
    /\ \A q \in (DOMAIN items) \ {k} :
          entryOf(Engine, k).lastUsed < entryOf(Engine, q).lastUsed

\* the step is what Add(k, v) does for an absent key k, with result ev
AddsNewKey(k, v, ev) ==
    /\ \E r \in lruAdd(Engine, k, v) :
          /\ [r.c EXCEPT !.evicts = EmptyBag, !.seen = <<>>] = Engine'
          /\ r.c.evicts = evicts'
          /\ r.evicted = ev
    /\ counter' = counter + 1 /\ size' = size
    /\ ev <=> (size >= 1 /\ Len(data) = size)
    /\ size = 0 => items' = items /\ data' = data
    /\ size >= 1 =>
          /\ entryOf(Engine', k) = [lastUsed |-> counter, key |-> k, value |-> v]
          /\ IF ev
             THEN \E victim \in DOMAIN items :
                     DOMAIN items' = ((DOMAIN items) \ {victim}) \cup {k}
             ELSE DOMAIN items' = (DOMAIN items) \cup {k}
          /\ \A q \in (DOMAIN items) \cap (DOMAIN items') :
                entryOf(Engine', q) = entryOf(Engine, q)

Returned(name) == op.name = name /\ Running

\* C1: on a cache of configured capacity C, after every public operation the
\* number of cached items, and the storage length, lie between 0 and C, C
\* being the size given at construction or by the latest Resize.
C1_LengthBound ==
    Running => /\ 0 <= lruLen(Engine) /\ lruLen(Engine) <= size
               /\ Len(data) <= size
               /\ op.name = "Len" => op.cnt = lruLen(Engine) /\ op.cnt <= size
               /\ op.name = "Resize" => size = op.n

\* a full cache that has just evicted in order to take a new key
C1_Witness ==
    /\ Returned("Add") /\ op.evicted
    /\ lruLen(Engine) = size /\ size = MaxSize

\* C2: the index map is a bijection between the present keys and the slots
\* 0..len(data)-1: the slot of every key holds that key, every slot's key is
\* mapped to that slot, and there are as many map entries as slots.
C2_MapArrayBijection ==
    Running =>
        /\ \A k \in DOMAIN items :
              /\ items[k] \in 0..(Len(data) - 1)
              /\ data[items[k] + 1].key = k
        /\ \A i \in 0..(Len(data) - 1) :
              /\ data[i + 1].key \in DOMAIN items
              /\ items[data[i + 1].key] = i
        /\ Cardinality(DOMAIN items) = Len(data)

\* the placement swap moved the newly added key into slot 0 of two
C2_Witness ==
    /\ Returned("Add") /\ ~op.evicted
    /\ Len(data) = 2 /\ op.key \in DOMAIN items /\ items[op.key] = 0
    /\ data[2].lastUsed < data[1].lastUsed

\* C3: with capacity >= 1, a Get of k right after Add(k, v) returns (v, true),
\* whether k was present, there was room, or an entry had to be evicted; with
\* capacity 1 the key just added is the only one present.
C3_AddThenGet ==
    (op.name = "Add" /\ size >= 1) =>
        LET g == lruGet(Engine, op.key)
        IN  /\ Running
            /\ g.ok /\ g.value = op.value /\ g.c.panic = NoPanic
            /\ size = 1 => DOMAIN items = {op.key}

\* Add(a); Add(b) on a cache of capacity 1: b pushed a out
C3_Witness ==
    /\ Returned("Add") /\ op.evicted /\ size = 1
    /\ lruGet(Engine, op.key).ok /\ counter = 3

\* C4: Add returns true exactly when, before the call, the key was absent, the
\* capacity was >= 1 and Len() equalled the capacity; then exactly one other
\* entry is destroyed and Len() is unchanged.  Otherwise Add returns false and
\* destroys nothing, and Len() grows by one when the key is new and there is
\* room and is unchanged otherwise.
C4_AddStep ==
    op'.name = "Add" =>
        LET k == op'.key
            before == DOMAIN items
            after == DOMAIN items'
            full == k \notin before /\ size >= 1 /\ lruLen(Engine) = size
            room == k \notin before /\ size >= 1 /\ lruLen(Engine) < size
        IN  /\ panicked' = NoPanic
            /\ op'.evicted <=> full
            /\ full => /\ \E victim \in before :
                             after = (before \ {victim}) \cup {k}
                       /\ Cardinality(after) = Cardinality(before)
                       /\ onEvict => BagCardinality(evicts') = 1
            /\ ~full => /\ before \subseteq after
                        /\ evicts' = EmptyBag
                        /\ Cardinality(after) =
                              Cardinality(before) + (IF room THEN 1 ELSE 0)

\* C4: every step that is an Add reports eviction exactly as stated above
C4_AddEvictionFlag == [][C4_AddStep]_vars

\* an evicting Add on a cache of capacity 2 told its callback
C4_Witness ==
    /\ Returned("Add") /\ op.evicted /\ size = 2
    /\ onEvict /\ BagCardinality(evicts) = 1

\* C5: with a callback registered, each call invokes it exactly once for every
\* entry it destroys, with that entry's key and the value it held, and never
\* otherwise; so new-key Adds minus callback invocations (balance) equals
\* Len().  Without a callback nothing is invoked.
C5_CallbackStep ==
    LET gone == (DOMAIN items) \ (DOMAIN items')
    IN  /\ onEvict' = onEvict
        /\ onEvict => evicts' = SetToBag({<<k, entryOf(Engine, k).value>> : k \in gone})
        /\ ~onEvict => evicts' = EmptyBag
        /\ onEvict => balance' = Cardinality(DOMAIN items')

\* C5: every step invokes the callback exactly for the entries it destroys
C5_CallbackAccounting == [][C5_CallbackStep]_vars

\* a Purge handed two entries to the callback
C5_Witness ==
    /\ Returned("Purge") /\ onEvict
    /\ BagCardinality(evicts) = 2 /\ balance = 0

\* C6: Peek, Contains and Len leave the whole engine unchanged, for present and
\* absent keys alike: keys, values, stamps, slots, counter and capacity; so
\* every later operation, a later eviction included, goes as if they had not
\* been called.
C6_ReadOnlyStep ==
    op'.name \in {"Peek", "Contains", "Len"} =>
        /\ panicked' = NoPanic
        /\ UNCHANGED engineVars
        /\ evicts' = EmptyBag
        /\ op'.name = "Peek" =>
              /\ op'.ok <=> op'.key \in DOMAIN items
              /\ op'.ok => op'.val = entryOf(Engine, op'.key).value
        /\ op'.name = "Contains" => (op'.ok <=> op'.key \in DOMAIN items)

\* C6: every Peek, Contains or Len step leaves the engine unchanged
C6_ReadOnly == [][C6_ReadOnlyStep]_vars

\* Peek found the oldest key of a full cache, which stays the oldest
C6_Witness ==
    /\ Returned("Peek") /\ op.ok
    /\ size = 2 /\ Len(data) = size /\ Oldest(op.key)

\* C7: ContainsOrAdd(k, v) on a present k returns (true, false) and changes
\* nothing: value, stamp and counter stay; on an absent k it does what
\* Add(k, v) does and returns (false, Add's result), and k is then contained
\* when the capacity is >= 1.
C7_ContainsOrAddStep ==
    op'.name = "ContainsOrAdd" =>
        /\ panicked' = NoPanic
        /\ IF op'.key \in DOMAIN items
           THEN /\ op'.ok /\ ~op'.evicted
                /\ UNCHANGED engineVars
                /\ evicts' = EmptyBag
           ELSE /\ ~op'.ok
                /\ AddsNewKey(op'.key, op'.value, op'.evicted)
                /\ size >= 1 => lruContains(Engine', op'.key)

\* C7: every ContainsOrAdd step finds without touching, or adds as Add does
C7_ContainsOrAdd == [][C7_ContainsOrAddStep]_vars

\* found the oldest key of a full cache, holding another value than the one
\* offered
C7_Witness ==
    /\ Returned("ContainsOrAdd") /\ op.ok
    /\ size = 2 /\ Len(data) = size /\ Oldest(op.key)
    /\ entryOf(Engine, op.key).value # op.value

\* C8: PeekOrAdd(k, v) on a k present with value w returns (w, true, false) and
\* leaves the whole state unchanged; on an absent k it inserts (k, v) as
\* Add(k, v) does and returns (zero value, false, Add's result).
C8_PeekOrAddStep ==
    op'.name = "PeekOrAdd" =>
        /\ panicked' = NoPanic
        /\ IF op'.key \in DOMAIN items
           THEN /\ op'.ok /\ ~op'.evicted
                /\ op'.val = entryOf(Engine, op'.key).value
                /\ UNCHANGED engineVars
                /\ evicts' = EmptyBag
           ELSE /\ ~op'.ok
                /\ op'.val = ZeroV
                /\ AddsNewKey(op'.key, op'.value, op'.evicted)

\* C8: every PeekOrAdd step peeks without touching, or adds as Add does
C8_PeekOrAdd == [][C8_PeekOrAddStep]_vars

\* the stored value came back, not the one offered, from a full cache
C8_Witness ==
    /\ Returned("PeekOrAdd") /\ op.ok
    /\ op.val # op.value /\ op.val # ZeroV
    /\ size = 2 /\ Len(data) = size /\ Oldest(op.key)

\* C9: Remove(k) returns true exactly when k was present; k is then absent,
\* Len() is one less, the capacity is unchanged, every other key keeps its
\* value and stamp, and the next Add of a new key evicts nothing.  Remove of an
\* absent key returns false, invokes no callback and changes nothing.
C9_RemoveStep ==
    op'.name = "Remove" =>
        LET k == op'.key
        IN  /\ panicked' = NoPanic
            /\ op'.ok <=> k \in DOMAIN items
            /\ IF k \in DOMAIN items
               THEN /\ DOMAIN items' = (DOMAIN items) \ {k}
                    /\ ~lruContains(Engine', k) /\ ~lruGet(Engine', k).ok
                    /\ lruLen(Engine') = lruLen(Engine) - 1
                    /\ Len(data') = Len(data) - 1
                    /\ size' = size /\ counter' = counter
                    /\ \A q \in DOMAIN items' :
                          /\ entryOf(Engine', q) = entryOf(Engine, q)
                          /\ entryOf(Engine', q).key = q
                    /\ \A q \in Keys \ DOMAIN items' :
                          \A r \in lruAdd(Engine', q, ZeroV) :
                             ~r.evicted /\ r.c.panic = NoPanic
                    /\ onEvict => evicts' = SetToBag({<<k, entryOf(Engine, k).value>>})
               ELSE /\ UNCHANGED engineVars
                    /\ evicts' = EmptyBag

\* C9: every Remove step drops exactly the key asked for, if present
C9_Remove == [][C9_RemoveStep]_vars

\* one of the two keys of a cache of capacity 2 was removed; the second one
\* added is left, in slot 0, and the slot past it is cleared
C9_Witness ==
    /\ Returned("Remove") /\ op.ok
    /\ Len(data) = 1 /\ size = 2
    /\ spare[1] = ZeroEntry
    /\ data[1].lastUsed = 2

\* the first n Adds of distinct keys from ks to the engine c evict nothing
RECURSIVE NoEvictRun(_, _, _)
NoEvictRun(c, ks, n) ==
    \/ n = 0
    \/ \A k \in ks : \A r \in lruAdd(c, k, ZeroV) :
          /\ ~r.evicted
          /\ r.c.panic = NoPanic
          /\ NoEvictRun(r.c, ks \ {k}, n - 1)

\* C10: after Purge Len() is 0 and Get, Peek and Contains find no key, until the
\* key is added again; the capacity C is unchanged, so the next C Adds of
\* distinct new keys all return evicted = false.
C10_Purged ==
    Returned("Purge") =>
        /\ lruLen(Engine) = 0 /\ Len(data) = 0
        /\ \A k \in Keys :
              /\ ~lruGet(Engine, k).ok
              /\ ~lruPeek(Engine, k).ok
              /\ ~lruContains(Engine, k)
        /\ NoEvictRun(Engine, Keys, Min(size, Cardinality(Keys)))

C10_PurgeStep ==
    /\ op'.name = "Purge" =>
          /\ panicked' = NoPanic
          /\ size' = size /\ counter' = counter
          /\ Len(data') + Len(spare') = Len(data) + Len(spare)
    /\ \A k \in (DOMAIN items') \ (DOMAIN items) :
          op'.name \in {"Add", "ContainsOrAdd", "PeekOrAdd"} /\ op'.key = k

\* C10: a purged cache is empty with its capacity kept, and keys come back only
\* by being added
C10_Purge == []C10_Purged /\ [][C10_PurgeStep]_vars

\* a full cache of capacity 2 was purged; its entries linger past the length
C10_Witness ==
    /\ Returned("Purge") /\ size = 2
    /\ Len(spare) = 2 /\ spare[1].lastUsed > 0 /\ spare[2].lastUsed > 0

\* C11: Resize(n) on a cache of L entries keeps exactly the min(L, n) entries
\* with the largest stamps, each with its value and stamp unchanged, destroys
\* the max(0, L - n) oldest with one callback each, returns max(0, L - n) and
\* makes n the capacity; with n >= L nothing is evicted and 0 is returned.
C11_ResizeStep ==
    op'.name = "Resize" =>
        LET L == lruLen(Engine)
            n == op'.n
            kept == DOMAIN items'
            gone == (DOMAIN items) \ kept
        IN  /\ panicked' = NoPanic
            /\ op'.cnt = Max(0, L - n)
            /\ n >= L => op'.cnt = 0 /\ gone = {} /\ evicts' = EmptyBag
            /\ size' = n /\ counter' = counter
            /\ kept \subseteq DOMAIN items
            /\ Cardinality(kept) = Min(L, n)
            /\ Cardinality(gone) = Max(0, L - n)
            /\ lruLen(Engine') = Min(L, n) /\ Len(data') = Min(L, n)
            /\ \A q \in kept :
                  /\ entryOf(Engine', q) = entryOf(Engine, q)
                  /\ entryOf(Engine', q).key = q
                  /\ \A d \in gone :
                        entryOf(Engine, d).lastUsed < entryOf(Engine, q).lastUsed
            /\ evicts' = IF onEvict
                         THEN SetToBag({<<d, entryOf(Engine, d).value>> : d \in gone})
                         ELSE EmptyBag
            /\ \A q \in Keys \ kept :
                  \A r \in lruAdd(Engine', q, ZeroV) :
                     r.evicted <=> (n >= 1 /\ Min(L, n) = n)

\* C11: every Resize step keeps the most recently used entries
C11_Resize == [][C11_ResizeStep]_vars

\* a cache of capacity 2 holding two entries was shrunk to capacity 1: the
\* entry stamped last is the one left
C11_Witness ==
    /\ Returned("Resize") /\ op.n = 1 /\ op.cnt = 1
    /\ size = 1 /\ Len(data) = 1
    /\ \E k \in DOMAIN items : entryOf(Engine, k).lastUsed >= 2

\* the calls that hand a key and a value to the engine's Add
AddingCalls == {"Add", "ContainsOrAdd", "PeekOrAdd"}

\* C12 as stated: a construction with size 0 succeeds and yields a cache of
\* capacity 0
C12_ZeroConstructs ==
    (op.name = "New" /\ op.n = 0) => (panicked = NoPanic /\ size = 0)

\* a cache of capacity 0 holds nothing, and no construction yields one
C12_ZeroHoldsNothing ==
    /\ (op.name = "New" /\ op.n <= 0) => panicked = BadSize
    /\ (op.name = "New" /\ Running) => size >= 1
    /\ (Running /\ size = 0) =>
          /\ lruLen(Engine) = 0 /\ Len(data) = 0
          /\ op.name = "Len" => op.cnt = 0

\* on a cache of capacity 0 an adding call evicts nothing, stores nothing and
\* invokes no callback, and only a Resize changes the capacity
C12_ZeroStep ==
    (Running /\ size = 0) =>
        /\ op'.name \in AddingCalls =>
              /\ panicked' = NoPanic
              /\ ~op'.evicted
              /\ items' = items /\ data' = data /\ spare' = spare
              /\ evicts' = EmptyBag
              /\ ~lruContains(Engine', op'.key)
        /\ op'.name # "Resize" => size' = 0

\* C12 (amended): NewLRU refuses a size of 0 as it does a negative one, and the
\* facade constructors abort on it.  A capacity of 0 comes about through
\* Resize(0) alone; on such a cache every Add returns evicted=false, stores
\* nothing, invokes no callback, and Len() stays 0 until a Resize to a positive
\* size.
C12_ZeroCapacity == []C12_ZeroHoldsNothing /\ [][C12_ZeroStep]_vars

\* a cache with a callback was resized to 0 and then asked to add a key
C12_Witness ==
    /\ Returned("Add") /\ size = 0 /\ onEvict
    /\ ~op.evicted /\ lruLen(Engine) = 0 /\ counter >= 3

\* C13: a facade constructor called with a negative size hands the error back
\* to its caller, the process is not aborted; no other call has an error
\* outcome.
C13_ErrorReturned ==
    /\ (op.name = "New" /\ op.n < 0) => panicked = NoPanic
    /\ op.name # "New" => panicked = NoPanic

\* C18: on a cache constructed with a size >= 1 no sequence of facade calls,
\* Resize(n >= 0) included, and no outcome of the random generator reaches
\* panic("invariant broken"), an out-of-range slot access or the key-mismatch
\* branch of Get: the only abort is that of a refused construction, and a Get
\* of any present key finds it.
C18_NoAbort ==
    /\ panicked \in {NoPanic, BadSize}
    /\ panicked = BadSize => (op.name = "New" /\ op.n <= 0)
    /\ (op.name = "New" /\ op.n >= 1) => Running
    /\ Running =>
          \A k \in DOMAIN items :
             /\ items[k] \in 0..(Len(data) - 1)
             /\ lruGet(Engine, k).c.panic = NoPanic
             /\ lruGet(Engine, k).ok

\* a full cache of capacity 2 was resized to 0: removeElement passed its
\* guard twice
C18_Witness ==
    /\ Returned("Resize") /\ op.n = 0 /\ op.cnt = 2
    /\ Len(data) = 0 /\ Len(spare) = 2

\* after the step key k is present and more recent than every other entry,
\* and every other entry is what it was
Refreshed(k) ==
    /\ DOMAIN items' = DOMAIN items
    /\ lruLen(Engine') = lruLen(Engine) /\ Len(data') = Len(data)
    /\ size' = size
    /\ entryOf(Engine', k).key = k
    /\ entryOf(Engine', k).lastUsed > entryOf(Engine, k).lastUsed
    /\ \A q \in (DOMAIN items) \ {k} :
          /\ entryOf(Engine', q) = entryOf(Engine, q)
          /\ entryOf(Engine', q).lastUsed < entryOf(Engine', k).lastUsed
    /\ evicts' = EmptyBag

\* C20: a Get that finds k, and an Add of a present key k, leave k with a
\* stamp strictly greater than that of every other live entry.  The Add also
\* stores the new value, returns false, invokes no callback and leaves Len()
\* and the other entries as they were, full cache or not.  A Get of an absent
\* key returns found=false and changes nothing, the counter included.
C20_RefreshStep ==
    LET k == op'.key
    IN  /\ (op'.name = "Get" /\ k \in DOMAIN items) =>
              /\ panicked' = NoPanic
              /\ op'.ok /\ op'.val = entryOf(Engine, k).value
              /\ entryOf(Engine', k).value = entryOf(Engine, k).value
              /\ Refreshed(k)
        /\ (op'.name = "Add" /\ k \in DOMAIN items) =>
              /\ panicked' = NoPanic
              /\ ~op'.evicted
              /\ entryOf(Engine', k).value = op'.value
              /\ Refreshed(k)
        /\ (op'.name = "Get" /\ k \notin DOMAIN items) =>
              /\ panicked' = NoPanic
              /\ ~op'.ok
              /\ UNCHANGED engineVars
              /\ evicts' = EmptyBag

\* C20: every Get and every Add of a present key refreshes that key alone
C20_Refresh == [][C20_RefreshStep]_vars

\* a Get found the older of the two keys of a full cache of capacity 2 and
\* made it the more recent one
C20_Witness ==
    /\ Returned("Get") /\ op.ok
    /\ size = 2 /\ Len(data) = 2
    /\ entryOf(Engine, op.key).lastUsed = 3
    /\ \E q \in (DOMAIN items) \ {op.key} : entryOf(Engine, q).lastUsed = 2

\* the goroutines inside the critical section of a facade method
Inside == {g \in Goroutines : gor[g].pc \in {"body", "add", "unlock", "callback"}}

\* exactly the goroutine that locked the mutex is inside a method body, and
\* until its engine call ends it sees the engine as it found it
C14_Exclusion ==
    Running =>
        /\ Inside = IF lock = 0 THEN {} ELSE {lock}
        /\ \A g \in Goroutines :
              gor[g].pc \in {"body", "add"} =>
                 /\ gor[g].snap = <<Engine>>
                 /\ gor[g].pc = "body" => evicts = EmptyBag

\* when the engine call of g ends, the engine, the callback invocations and
\* the results g will return are an outcome of its method run alone on the
\* engine g found when it locked; no other step changes the engine
C14_LinearStep ==
    /\ \A g \in Goroutines :
          (gor[g].pc \in {"body", "add"} /\ gor'[g].pc = "unlock") =>
              /\ lock = g /\ lock' = g
              /\ \E r \in Serial(gor[g].snap[1], gor'[g].call) :
                    /\ [r.c EXCEPT !.evicts = EmptyBag, !.seen = <<>>] = Engine'
                    /\ r.c.evicts = evicts'
                    /\ r.res = gor'[g].res
                    /\ r.c.panic = NoPanic /\ panicked' = NoPanic
    /\ engineVars' # engineVars =>
          /\ lock # 0 /\ lock' = lock
          /\ gor[lock].pc \in {"body", "add"} /\ gor'[lock].pc = "unlock"
          /\ \A h \in Goroutines \ {lock} :
                gor'[h] = gor[h] /\ gor[h].pc \in {"idle", "lock"}

\* C14: whatever goroutines call whatever facade methods concurrently, each
\* call's results and the engine it leaves are those of the method executed
\* alone on the single-threaded engine, in the order of the lock acquisitions;
\* no call sees the engine while another call is half done.
C14_Linearizable == []C14_Exclusion /\ [][C14_LinearStep]_vars

\* one goroutine is about to return from an Add that evicted, with the callback
\* invoked, while the other waits for the lock
C14_Witness ==
    /\ Running
    /\ \E g \in Goroutines, h \in Goroutines :
          /\ gor[g].pc = "unlock" /\ gor[g].call.name = "Add"
          /\ gor[g].res.evicted /\ BagCardinality(evicts) = 1
          /\ gor[h].pc = "lock" /\ lock = g

\* the goroutines whose composite call has returned, and those among them
\* that were told the key was not found
Returnees == {g \in Goroutines : gor[g].pc = "done"}
Adders == {g \in Returnees : ~gor[g].res.ok}

\* C15: of the goroutines that concurrently call ContainsOrAdd(k, v) or
\* PeekOrAdd(k, v) for one absent key k of a cache of capacity >= 1, exactly
\* one is returned found=false, and k holds that caller's value; every other
\* call returns found=true.  Between the look-up and the Add of one composite
\* call no other call runs: the engine is still as the caller found it.
C15_CompositeAtomic ==
    /\ Running
    /\ Returnees # {} => Cardinality(Adders) = 1
    /\ \A g \in Adders :
          /\ lruContains(Engine, RaceKey)
          /\ entryOf(Engine, RaceKey).value = gor[g].call.value
          /\ ~gor[g].res.evicted
    /\ \A g \in Returnees \ Adders :
          gor[g].call.name = "PeekOrAdd" =>
             \E a \in Adders : gor[g].res.val = gor[a].call.value
    /\ \A g \in Goroutines :
          gor[g].pc = "add" =>
             /\ lock = g
             /\ gor[g].snap = <<Engine>>
             /\ ~lruContains(Engine, RaceKey)
             /\ Returnees = {}

\* both calls have returned: the ContainsOrAdd of TRUE was first and stored
\* its value, the PeekOrAdd of FALSE found the key and was given TRUE
C15_Witness ==
    /\ Returnees = Goroutines
    /\ \E g \in Goroutines, h \in Goroutines :
          /\ gor[g].call.name = "ContainsOrAdd" /\ gor[g].call.value
          /\ ~gor[g].res.ok
          /\ gor[h].call.name = "PeekOrAdd" /\ ~gor[h].call.value
          /\ gor[h].res.ok /\ gor[h].res.val
    /\ entryOf(Engine, RaceKey).value

\* the mutex is unlocked whenever no goroutine is between the Lock and the
\* return of a facade method
C16_LockFree ==
    Running => ((\A g \in Goroutines : gor[g].pc \in {"idle", "lock"}) => lock = 0)

\* every return unlocks, the early return of a composite method included
C16_ReturnStep ==
    \A g \in Goroutines :
        (gor[g].pc = "unlock" /\ gor'[g].pc = "idle") =>
            lock = g /\ lock' = 0

\* every call that has been made returns
C16_Returns ==
    \A g \in Goroutines : (gor[g].pc # "idle") ~> (gor[g].pc = "idle")

\* C16: every facade method unlocks on every exit path, the early returns of
\* ContainsOrAdd and PeekOrAdd included, so the mutex is unlocked whenever no
\* method is executing; with a callback that stays out of the cache and a fair
\* scheduler every call of every goroutine eventually returns.
C16_Progress == []C16_LockFree /\ [][C16_ReturnStep]_vars /\ C16_Returns

\* a ContainsOrAdd that found its key is on its early return, the mutex still
\* locked, and the other goroutine waits for it
C16_Witness ==
    \E g \in Goroutines, h \in Goroutines :
        /\ gor[g].pc = "unlock" /\ gor[g].call.name = "ContainsOrAdd"
        /\ gor[g].res.ok /\ lock = g
        /\ gor[h].pc = "lock"

\* the methods whose engine call can destroy an entry
Destroyers == {"Add", "ContainsOrAdd", "PeekOrAdd", "Remove", "Purge", "Resize"}

\* a goroutine inside the callback is inside a call that destroys entries and
\* holds the mutex
C17_UnderLock ==
    \A g \in Goroutines :
        gor[g].pc = "callback" =>
            /\ lock = g
            /\ gor[g].call.name \in Destroyers
            /\ ~gor[g].inner

\* the callback is entered from the engine call, the mutex locked; from then
\* on its inner call stays at its Lock, the outer call does not return, the
\* mutex stays locked and no other goroutine gets it; a call that returns has
\* invoked no callback
C17_BlockedStep ==
    \A g \in Goroutines :
        /\ (gor[g].pc # "callback" /\ gor'[g].pc = "callback") =>
              /\ gor[g].pc \in {"body", "add"} /\ lock = g /\ lock' = g
        /\ gor[g].pc = "callback" =>
              /\ gor'[g].pc = "callback" /\ lock' = g
              /\ UNCHANGED engineVars
              /\ \A h \in Goroutines \ {g} :
                    gor'[h].pc \in {"idle", "lock"}
        /\ gor'[g].pc = "unlock" => evicts' = EmptyBag

\* C17: the eviction callback runs synchronously under the facade's mutex,
\* locked by the call that destroyed the entry (an evicting Add, Remove, Purge,
\* Resize).  When the callback calls a method of the same cache, that inner
\* call stays blocked at the Lock and the outer call never returns.
C17_Deadlock == []C17_UnderLock /\ [][C17_BlockedStep]_vars

\* an evicting Add is inside the callback, blocked at the Lock of the method
\* the callback called: the victim is out of the index map and still in its
\* slot; the other goroutine waits for the mutex too
C17_Witness ==
    \E g \in Goroutines, h \in Goroutines :
        /\ gor[g].pc = "callback" /\ gor[g].call.name = "Add" /\ lock = g
        /\ Len(data) = size /\ Cardinality(DOMAIN items) = Len(data) - 1
        /\ gor[h].pc = "lock"

\* the slots base, base+1, ..., base+7 taken modulo n, in probing order
Window(base, n) == [j \in 0..(randomProbes - 1) |-> (base + j) % n]

\* the first slot, in probing order, among those of the window of array d at
\* base that carry the smallest stamp
WindowMin(d, base) ==
    LET w == Window(base, Len(d))
        stamp(j) == d[w[j] + 1].lastUsed
        least == CHOOSE j \in DOMAIN w :
                    /\ \A i \in DOMAIN w : stamp(j) <= stamp(i)
                    /\ \A i \in DOMAIN w : i < j => stamp(i) > stamp(j)
    IN  w[least]

\* C21: an Add that evicts from a full cache of length N >= 1 takes as victim,
\* for some base in [0, N), the first slot in probing order with the smallest
\* lastUsed among the slots base, ..., base+7 modulo N; the scan that does not
\* wrap and the one that wraps both find that slot; the new entry goes into
\* the victim's slot and no other entry changes slot, value or stamp.
C21_ProbeStep ==
    (op'.name = "Add" /\ op'.evicted) =>
        LET n == Len(data)
            ent == [lastUsed |-> counter, key |-> op'.key, value |-> op'.value]
        IN  /\ panicked' = NoPanic
            /\ n >= 1 /\ n = size /\ Len(data') = n
            /\ \A base \in 0..(n - 1) :
                  findOldest(Engine, base) =
                     [off |-> WindowMin(data, base), ok |-> TRUE]
            /\ \E base \in 0..(n - 1) :
                  LET v == WindowMin(data, base)
                  IN  /\ data' = [data EXCEPT ![v + 1] = ent]
                      /\ items' = MapSet(MapDel(items, data[v + 1].key),
                                         op'.key, v)

\* C21: every evicting Add replaces the minimum of a probe window
C21_ProbeWindow == [][C21_ProbeStep]_vars

\* nine slots, the oldest entry in the last one: the first Add to the full
\* cache drew base 0, scanned slots 0..7 without wrapping and evicted the
\* entry stamped 2, the oldest entry staying
C21_Witness ==
    /\ Returned("Add") /\ op.evicted
    /\ Len(data) = 9 /\ counter = 11
    /\ data[9].lastUsed = 1
    /\ 2 \notin DOMAIN items

\* the present keys whose stamp is greater than that of key k
Newer(k) ==
    {q \in DOMAIN items :
        entryOf(Engine, q).lastUsed > entryOf(Engine, k).lastUsed}

\* C22: whenever Add evicts from a full cache of length N, whatever base the
\* generator draws, at least min(N, 8) - 1 live entries are more recent than
\* the victim, so the min(N, 8) - 1 most recently used entries survive; and
\* with N <= 8 the victim is the one entry with the smallest lastUsed.
C22_EvictStep ==
    (op'.name = "Add" /\ op'.evicted) =>
        LET n == Len(data)
            gone == (DOMAIN items) \ (DOMAIN items')
        IN  /\ panicked' = NoPanic
            /\ Cardinality(gone) = 1
            /\ \A v \in gone :
                  /\ Cardinality(Newer(v)) >= Min(n, randomProbes) - 1
                  /\ n <= randomProbes => Oldest(v)
            /\ \A k \in DOMAIN items :
                  Cardinality(Newer(k)) < Min(n, randomProbes) - 1 =>
                      /\ k \in DOMAIN items'
                      /\ entryOf(Engine', k) = entryOf(Engine, k)

\* C22: no evicting Add takes one of the most recently used entries
C22_RecentSurvive == [][C22_EvictStep]_vars

\* nine slots, the oldest entry in slot 0: the Add drew base 1 and evicted
\* the entry stamped 2, which had exactly seven more recent entries
C22_Witness ==
    /\ Returned("Add") /\ op.evicted
    /\ Len(data) = 9 /\ counter = 11
    /\ data[1].lastUsed = 1
    /\ 2 \notin DOMAIN items /\ 3 \in DOMAIN items

\* the orders in which the entries of array d can be laid out
Layouts(d) ==
    {t \in [1..Len(d) -> {d[i] : i \in 1..Len(d)}] :
        \A i \in 1..Len(d) : \A j \in 1..Len(d) : i # j => t[i] # t[j]}

\* C23: Resize(n) ends by shuffling the storage with the generator, so every
\* order of the surviving entries over the slots [0, length) is an outcome of
\* it, and the order is not fixed to the descending-lastUsed one the sort
\* produces.
C23_ResizeStep ==
    op'.name = "Resize" =>
        \A t \in Layouts(data') :
           \E r \in lruResize(Engine, op'.n) : r.c.data = t

\* C23: every layout of the survivors is an outcome of every Resize step
C23_ResizeShuffles == [][C23_ResizeStep]_vars

\* C24: after every public operation every slot of the backing array from the
\* current length up to the allocated capacity holds an empty entry, with
\* lastUsed = 0; so it is after a Purge of a cache that held entries and
\* after a Remove.
C24_Sentinel ==
    Running => \A i \in 1..Len(spare) : spare[i] = ZeroEntry /\ spare[i].lastUsed = 0

\* the counter is at least 1 and every live entry carries a stamp the counter
\* has handed out, so at least 1
C25_PositiveStamps ==
    Running =>
        /\ counter >= 1
        /\ op.name = "New" => counter = 1
        /\ \A i \in 1..Len(data) :
              data[i].lastUsed >= 1 /\ data[i].lastUsed < counter

\* the counter never decreases: it advances by one on every Add and on every
\* Get that finds its key, and is left alone by the other calls
C25_CounterStep ==
    /\ counter' >= counter
    /\ op'.name = "Add" => counter' = counter + 1
    /\ op'.name = "Get" =>
          counter' = IF op'.key \in DOMAIN items THEN counter + 1 ELSE counter
    /\ op'.name \in {"Peek", "Contains", "Len", "Remove", "Purge", "Resize"} =>
          counter' = counter
    /\ op'.name \in {"ContainsOrAdd", "PeekOrAdd"} =>
          counter' = IF op'.key \in DOMAIN items THEN counter ELSE counter + 1

\* C25: starting from 1 the recency counter never decreases (it advances on
\* every Add and every Get that finds its key; Peek, Contains, Len, Remove,
\* Purge, Resize and a missing Get leave it unchanged), and every live entry
\* has lastUsed >= 1, so that 0 only marks an empty slot.
C25_Monotonic == []C25_PositiveStamps /\ [][C25_CounterStep]_vars

\* a Get missed on a cache of two entries: the counter is still the 3 the
\* two Adds left
C25_Witness ==
    /\ Returned("Get") /\ ~op.ok
    /\ Len(data) = 2 /\ counter = 3
    /\ data[1].lastUsed + data[2].lastUsed = 3

\* C26: an approxlru engine built with size >= 1 goes through every sequence
\* of Add and Remove without a panic or a slot access out of range, and an
\* Add reports an eviction only when a key other than its own left the cache
C26_NoPanic == size >= 1 => panicked = NoPanic

C26_AddStep ==
    (op'.name = "Add" /\ op'.evicted /\ panicked' = NoPanic)
        => \E k \in DOMAIN items :
              /\ entryOf(Engine, k).lastUsed > 0
              /\ k \notin DOMAIN items'

C26_LegacySurvives == []C26_NoPanic /\ [][C26_AddStep]_vars

=============================================================================
